---- MODULE Spec2Model ----
(***************************************************************************)
(* Model of brdb_cmd (src/src/main.rs): a command line inspector that      *)
(* lists (`ls`) and renders (`read`) entries of a virtual directory tree.  *)
(*                                                                         *)
(* Strings are sequences of atoms.  The atoms "/" and "." are the two      *)
(* characters the program looks at; every other atom is a word that        *)
(* contains neither of them ("a", "json", "mps", "schema").  No word is a  *)
(* prefix of another, so two strings are equal exactly when their atom     *)
(* sequences are equal.  Texts the program only copies (messages, file     *)
(* contents) are atoms of their own.                                       *)
(*                                                                         *)
(* A node of the tree is named by its address, the sequence of child names *)
(* leading to it from the root; the root is the empty address.             *)
(***************************************************************************)
EXTENDS Integers, Sequences, FiniteSets, TLC

VARIABLES pc, argv, fs, stdout, calls, traversal, parts, res, output, panic,
          path_, ext, bytes

vars == <<pc, argv, fs, stdout, calls, traversal, parts, res, output, panic,
          path_, ext, bytes>>

\* ---------------------------------------------------------------- bounds
MaxLen == 6        \* longest path argument over the characters of LsChars
MaxReadLen == 4    \* longest path argument over the atoms of ReadChars
MaxNodes == 2      \* most nodes of a tree besides the root

\* ---------------------------------------------------------------- strings
Slash == "/"
Dot == "."
LsChars == {Slash, Dot, "a"}
ReadChars == {Slash, Dot, "a", "json", "mps", "schema"}

StringsOver(chars, n) == UNION {[1..k -> chars] : k \in 0..n}

Paths == StringsOver(LsChars, MaxLen) \cup StringsOver(ReadChars, MaxReadLen)

Front(s) == SubSeq(s, 1, Len(s) - 1)
Last(s) == s[Len(s)]

\* index of the first occurrence of c in s, 0 when there is none
FirstIndex(s, c) ==
    IF \E i \in 1..Len(s) : s[i] = c
    THEN CHOOSE i \in 1..Len(s) : s[i] = c /\ \A j \in 1..(i-1) : s[j] # c
    ELSE 0

\* index of the last occurrence of c in s, 0 when there is none
LastIndex(s, c) ==
    IF \E i \in 1..Len(s) : s[i] = c
    THEN CHOOSE i \in 1..Len(s) : s[i] = c /\ \A j \in (i+1)..Len(s) : s[j] # c
    ELSE 0

RECURSIVE trim_start_matches(_)
trim_start_matches(s) ==
    IF s # <<>> /\ Head(s) = Slash THEN trim_start_matches(Tail(s)) ELSE s

RECURSIVE trim_end_matches(_)
trim_end_matches(s) ==
    IF s # <<>> /\ Last(s) = Slash THEN trim_end_matches(Front(s)) ELSE s

\* str::split('/'): the pieces between the slashes, empty pieces included;
\* the empty string splits into one empty piece
RECURSIVE split(_)
split(s) ==
    LET i == FirstIndex(s, Slash)
    IN  IF i = 0 THEN <<s>>
        ELSE <<SubSeq(s, 1, i - 1)>> \o split(SubSeq(s, i + 1, Len(s)))

\* str::split_once("."): cut at the FIRST dot; none when there is no dot
split_once(s) ==
    LET i == FirstIndex(s, Dot)
    IN  IF i = 0 THEN [some |-> FALSE, name |-> <<>>, ext |-> <<>>]
        ELSE [some |-> TRUE, name |-> SubSeq(s, 1, i - 1),
              ext |-> SubSeq(s, i + 1, Len(s))]

\* strings_to_lines: every name followed by a newline
RECURSIVE strings_to_lines(_)
strings_to_lines(names) ==
    IF names = <<>> THEN <<>>
    ELSE Head(names) \o <<"\n">> \o strings_to_lines(Tail(names))

\* ---------------------------------------------------------------- BrFs
CurDir == <<Dot>>
ParentDir == <<Dot, Dot>>
Names == {<<"a">>, <<"a", "a">>}
Root == <<>>

Addresses == UNION {[1..k -> Names] : k \in 1..MaxNodes}

\* a tree maps the address of every node but the root to its kind; the
\* parent of a node is the root or a Folder of the tree
IsTree(t) ==
    \A n \in DOMAIN t :
        Len(n) > 1 => (Front(n) \in DOMAIN t /\ t[Front(n)] = "Folder")

Trees ==
    {t \in UNION {[S -> {"Folder", "File"}] :
                    S \in {S \in SUBSET Addresses : Cardinality(S) <= MaxNodes}} :
        IsTree(t)}

Kind(t, n) == IF n = Root THEN "Root" ELSE t[n]

\* map.get(part) of the mapping of node n
MapGet(t, n, part) ==
    IF part \in Names /\ Append(n, part) \in DOMAIN t
    THEN [some |-> TRUE, node |-> Append(n, part)]
    ELSE [some |-> FALSE, node |-> Root]

\* a < b in the order the mapping iterates its keys (by length, then equal)
KeyBefore(a, b) == Len(a) < Len(b)

\* map.keys(): the names of the direct children of n, in iteration order
RECURSIVE SortKeys(_)
SortKeys(S) ==
    IF S = {} THEN <<>>
    ELSE LET k == CHOOSE x \in S : \A y \in S \ {x} : KeyBefore(x, y)
         IN  <<k>> \o SortKeys(S \ {k})

MapKeys(t, n) == SortKeys({k \in Names : Append(n, k) \in DOMAIN t})

\* ---------------------------------------------------------------- results
NoNode == Root
NoErr == "none"

\* Result values: Ok carries a node (traverse) or a text (list_dir,
\* read_file); Err carries the error and, for NotFound, its payload
OkNode(n) == [ok |-> TRUE, node |-> n, text |-> <<>>, err |-> NoErr, arg |-> <<>>]
OkText(s) == [ok |-> TRUE, node |-> NoNode, text |-> s, err |-> NoErr, arg |-> <<>>]
Err(e, a) == [ok |-> FALSE, node |-> NoNode, text |-> <<>>, err |-> e, arg |-> a]

NoParentOfRoot == Err("NoParentOfRoot", <<>>)
NotFound(part) == Err("NotFound", part)
TraverseIntoFile == Err("TraverseIntoFile", <<>>)
InvalidFileType == Err("Invalid file type", <<>>)
NoRes == Err(NoErr, <<>>)

\* impl fmt::Display for TraverseError
Display(e) ==
    CASE e.err = "NoParentOfRoot" -> <<"You tried to go above the root directory.">>
      [] e.err = "NotFound" ->
            <<"cannot access '">> \o e.arg \o <<"': No such file or directory.">>
      [] e.err = "TraverseIntoFile" -> <<"Tried to traverse into a file, not a folder.">>

\* ---------------------------------------------------------------- inputs
Prog == <<"brdb_cmd">>
World == <<"world.brdb">>
Ls == <<"ls">>
Read == <<"read">>
Cmds == {Ls, Read, <<"edit">>, <<"cat">>}

Argvs ==
    {<<Prog>>, <<Prog, World>>}
    \cup {<<Prog, World, c>> : c \in Cmds}
    \cup {<<Prog, World, c, p>> : c \in Cmds, p \in Paths}

\* what the storage can hold under a path; "0xFF" is a byte that is not
\* valid UTF-8
FileBytes == {<<>>, <<"txt">>, <<"0xFF">>}
Utf8Valid(b) == \A i \in 1..Len(b) : b[i] # "0xFF"

\* the canonical text of the schema decoded from bytes b
SchemaText(b) == <<"schema<">> \o b \o <<">">>

EmptyFs == [n \in {} |-> "File"]

arg_cmd == argv[3]
arg_file_path == trim_start_matches(argv[4])

TextWrite(s) == [kind |-> "text", data |-> s]
RawWrite(b) == [kind |-> "raw", data |-> b]

Usage == <<"usage: ">> \o argv[1] \o <<" <world file path> <ls|read|edit> <path>">>
\* the message with the path argument in the place of the command
InvalidCommand_path ==
    <<"invalid command: ">> \o argv[4] \o <<". use one of: <ls|read|edit>">>

InvalidCommand ==
    <<"invalid command: ">> \o arg_cmd \o <<". use one of: <ls|read|edit>">>

\* the exit status of a run that has ended: process::exit(0) and the return
\* of main give 0, a panic gives 101
ExitCode == IF pc = "abort" THEN 101 ELSE 0

\* ---------------------------------------------------------------- Init
Init ==
    /\ argv \in Argvs
    /\ pc = "main"
    /\ fs = EmptyFs
    /\ stdout = <<>>
    /\ calls = <<>>
    /\ traversal = <<>>
    /\ parts = <<>>
    /\ res = NoRes
    /\ output = <<>>
    /\ panic = <<>>
    /\ path_ = <<>>
    /\ ext = <<>>
    /\ bytes = <<>>

\* ---------------------------------------------------------------- main
\* MainArgs with the argument count off by one
MainArgs_off_by_one ==
    /\ pc = "main"
    /\ IF Len(argv) < 3
       THEN /\ stdout' = Append(stdout, TextWrite(Usage \o <<"\n">>))
            /\ pc' = "exit"
       ELSE /\ pc' = "open"
            /\ UNCHANGED stdout
    /\ UNCHANGED <<argv, fs, calls, traversal, parts, res, output, panic,
                   path_, ext, bytes>>

\* main, argument check: too few arguments print the usage and exit(0)
MainArgs ==
    /\ pc = "main"
    /\ IF Len(argv) < 4
       THEN /\ stdout' = Append(stdout, TextWrite(Usage \o <<"\n">>))
            /\ pc' = "exit"
       ELSE /\ pc' = "open"
            /\ UNCHANGED stdout
    /\ UNCHANGED <<argv, fs, calls, traversal, parts, res, output, panic,
                   path_, ext, bytes>>

\* Brdb::open(arg_world_path).expect("couldnt open file")
OpenDb ==
    /\ pc = "open"
    /\ calls' = Append(calls, "open")
    /\ \E opened \in BOOLEAN :
         IF opened
         THEN pc' = "get_fs" /\ UNCHANGED panic
         ELSE pc' = "abort" /\ panic' = <<"couldnt open file">>
    /\ UNCHANGED <<argv, fs, stdout, traversal, parts, res, output,
                   path_, ext, bytes>>

\* db.get_fs().expect("couldnt get fs")
GetFs ==
    /\ pc = "get_fs"
    /\ calls' = Append(calls, "get_fs")
    /\ \/ \E t \in Trees : fs' = t /\ pc' = "dispatch" /\ UNCHANGED panic
       \/ pc' = "abort" /\ panic' = <<"couldnt get fs">> /\ UNCHANGED fs
    /\ UNCHANGED <<argv, stdout, traversal, parts, res, output,
                   path_, ext, bytes>>

\* match arg_cmd, the arm of an unknown command
InvalidCmd ==
    /\ pc = "dispatch"
    /\ arg_cmd \notin {Ls, Read}
    /\ output' = InvalidCommand
    /\ pc' = "print"
    /\ UNCHANGED <<argv, fs, stdout, calls, traversal, parts, res, panic,
                   path_, ext, bytes>>

\* println!("{output}")
Println ==
    /\ pc = "print"
    /\ stdout' = Append(stdout, TextWrite(output \o <<"\n">>))
    /\ pc' = "done"
    /\ UNCHANGED <<argv, fs, calls, traversal, parts, res, output, panic,
                   path_, ext, bytes>>

\* ---------------------------------------------------------------- traverse
\* traverse_part with a name on an empty stack looked up from the root
traverse_part_restart_at_root(t, stack, part) ==
    CASE part = CurDir -> [stack |-> stack, ret |-> NoRes]
      [] part = ParentDir ->
            IF stack = <<>>
            THEN [stack |-> stack, ret |-> NoParentOfRoot]
            ELSE [stack |-> Front(stack), ret |-> NoRes]
      [] OTHER ->
            LET top == IF stack = <<>> THEN Root ELSE Last(stack)
            IN  IF Kind(t, top) \in {"Root", "Folder"}
                THEN LET v == MapGet(t, top, part)
                     IN  IF v.some
                         THEN [stack |-> Append(stack, v.node), ret |-> NoRes]
                         ELSE [stack |-> stack, ret |-> NotFound(part)]
                ELSE [stack |-> stack, ret |-> TraverseIntoFile]

\* traverse_part without the arm for `.`: it is looked up like a name
traverse_part_no_curdir(t, stack, part) ==
    IF part = ParentDir
    THEN IF stack = <<>>
         THEN [stack |-> stack, ret |-> NoParentOfRoot]
         ELSE [stack |-> Front(stack), ret |-> NoRes]
    ELSE IF stack = <<>> THEN [stack |-> stack, ret |-> NoParentOfRoot]
    ELSE IF Kind(t, Last(stack)) \in {"Root", "Folder"}
         THEN LET v == MapGet(t, Last(stack), part)
              IN  IF v.some
                  THEN [stack |-> Append(stack, v.node), ret |-> NoRes]
                  ELSE [stack |-> stack, ret |-> NotFound(part)]
         ELSE [stack |-> stack, ret |-> TraverseIntoFile]

\* traverse_part with `..` handled like `.`: the stack is not popped
traverse_part_dotdot_noop(t, stack, part) ==
    IF part \in {CurDir, ParentDir} THEN [stack |-> stack, ret |-> NoRes]
    ELSE IF stack = <<>> THEN [stack |-> stack, ret |-> NoParentOfRoot]
    ELSE IF Kind(t, Last(stack)) \in {"Root", "Folder"}
         THEN LET v == MapGet(t, Last(stack), part)
              IN  IF v.some
                  THEN [stack |-> Append(stack, v.node), ret |-> NoRes]
                  ELSE [stack |-> stack, ret |-> NotFound(part)]
         ELSE [stack |-> stack, ret |-> TraverseIntoFile]

\* traverse_part with a File looked up like an empty folder
traverse_part_file_as_folder(t, stack, part) ==
    CASE part = CurDir -> [stack |-> stack, ret |-> NoRes]
      [] part = ParentDir ->
            IF stack = <<>>
            THEN [stack |-> stack, ret |-> NoParentOfRoot]
            ELSE [stack |-> Front(stack), ret |-> NoRes]
      [] OTHER ->
            IF stack = <<>>
            THEN [stack |-> stack, ret |-> NoParentOfRoot]
            ELSE LET v == MapGet(t, Last(stack), part)
                 IN  IF v.some
                     THEN [stack |-> Append(stack, v.node), ret |-> NoRes]
                     ELSE [stack |-> stack, ret |-> NotFound(part)]

\* traverse_part with a missing name skipped instead of reported
traverse_part_skip_miss(t, stack, part) ==
    CASE part = CurDir -> [stack |-> stack, ret |-> NoRes]
      [] part = ParentDir ->
            IF stack = <<>>
            THEN [stack |-> stack, ret |-> NoParentOfRoot]
            ELSE [stack |-> Front(stack), ret |-> NoRes]
      [] OTHER ->
            IF stack = <<>>
            THEN [stack |-> stack, ret |-> NoParentOfRoot]
            ELSE IF Kind(t, Last(stack)) \in {"Root", "Folder"}
                 THEN LET v == MapGet(t, Last(stack), part)
                      IN  IF v.some
                          THEN [stack |-> Append(stack, v.node), ret |-> NoRes]
                          ELSE [stack |-> stack, ret |-> NoRes]
                 ELSE [stack |-> stack, ret |-> TraverseIntoFile]

\* one turn of the loop of traverse over the segment part: the stack after
\* it and the error it returns, NoRes when the loop goes on
traverse_part(t, stack, part) ==
    CASE part = CurDir -> [stack |-> stack, ret |-> NoRes]
      [] part = ParentDir ->
            IF stack = <<>>
            THEN [stack |-> stack, ret |-> NoParentOfRoot]
            ELSE [stack |-> Front(stack), ret |-> NoRes]
      [] OTHER ->
            IF stack = <<>>
            THEN [stack |-> stack, ret |-> NoParentOfRoot]
            ELSE IF Kind(t, Last(stack)) \in {"Root", "Folder"}
                 THEN LET v == MapGet(t, Last(stack), part)
                      IN  IF v.some
                          THEN [stack |-> Append(stack, v.node), ret |-> NoRes]
                          ELSE [stack |-> stack, ret |-> NotFound(part)]
                 ELSE [stack |-> stack, ret |-> TraverseIntoFile]

\* traverse_pop with an empty stack read as "still at the root"
traverse_pop_stay_at_root(stack) ==
    IF stack = <<>> THEN OkNode(Root) ELSE OkNode(Last(stack))

\* traversal.pop().ok_or(TraverseError::NoParentOfRoot)
traverse_pop(stack) ==
    IF stack = <<>> THEN NoParentOfRoot ELSE OkNode(Last(stack))

\* ---------------------------------------------------------------- list_dir
\* list_dir_trim without the trim of the end
list_dir_trim_start_only(path) == trim_start_matches(path)

\* the two trims at the head of list_dir
list_dir_trim(path) == trim_end_matches(trim_start_matches(path))

\* list_dir_match with the listing taken from fs instead of sub_fs
list_dir_match_lists_root(t, r, path) ==
    IF ~r.ok THEN r
    ELSE IF Kind(t, r.node) \in {"Root", "Folder"}
         THEN OkText(strings_to_lines(MapKeys(t, Root)))
         ELSE OkText(path)

\* list_dir_match with a File listed by its name instead of the path
list_dir_match_basename(t, r, path) ==
    IF ~r.ok THEN r
    ELSE IF Kind(t, r.node) \in {"Root", "Folder"}
         THEN OkText(strings_to_lines(MapKeys(t, r.node)))
         ELSE OkText(Last(r.node))

\* the match on sub_fs at the end of list_dir; r is the node list_dir
\* resolved, or the error that `?` hands on to the caller
list_dir_match(t, r, path) ==
    IF ~r.ok THEN r
    ELSE IF Kind(t, r.node) \in {"Root", "Folder"}
         THEN OkText(strings_to_lines(MapKeys(t, r.node)))
         ELSE OkText(path)

\* ls_output with the error message printed bare
ls_output_no_prefix(r) == IF r.ok THEN r.text ELSE Display(r)

\* the `ls` arm of main: the listing, or the error as a line of output
ls_output(r) == IF r.ok THEN r.text ELSE <<"error: ">> \o Display(r)

\* traverse as a function: the loop over the segments segs from the stack
\* stack, then the final pop
RECURSIVE traverse_loop(_, _, _)
traverse_loop(t, stack, segs) ==
    IF segs = <<>> THEN traverse_pop(stack)
    ELSE LET r == traverse_part(t, stack, Head(segs))
         IN  IF r.ret = NoRes THEN traverse_loop(t, r.stack, Tail(segs))
             ELSE r.ret

traverse(t, path) == traverse_loop(t, <<Root>>, split(path))

\* list_dir as a function of the tree and the path it is called with
list_dir(t, path) ==
    LET p == list_dir_trim(path)
    IN  list_dir_match(t, IF p = <<>> THEN OkNode(Root) ELSE traverse(t, p), p)

\* list_dir up to the choice of sub_fs: the root itself for the empty path,
\* otherwise the start of traverse with the stack [root]
ListDirEnter ==
    /\ pc = "dispatch"
    /\ arg_cmd = Ls
    /\ path_' = list_dir_trim(arg_file_path)
    /\ IF path_' = <<>>
       THEN /\ res' = OkNode(Root)
            /\ pc' = "list_dir"
            /\ UNCHANGED <<traversal, parts>>
       ELSE /\ traversal' = <<Root>>
            /\ parts' = split(path_')
            /\ pc' = "traverse"
            /\ UNCHANGED res
    /\ UNCHANGED <<argv, fs, stdout, calls, output, panic, ext, bytes>>

\* one iteration of `for part in path.split('/')`
TraverseStep ==
    /\ pc = "traverse"
    /\ parts # <<>>
    /\ LET r == traverse_part(fs, traversal, Head(parts))
       IN  /\ traversal' = r.stack
           /\ parts' = Tail(parts)
           /\ IF r.ret = NoRes
              THEN UNCHANGED <<pc, res>>
              ELSE res' = r.ret /\ pc' = "list_dir"
    /\ UNCHANGED <<argv, fs, stdout, calls, output, panic, path_, ext, bytes>>

\* the return of traverse after the last segment
TraverseReturn ==
    /\ pc = "traverse"
    /\ parts = <<>>
    /\ res' = traverse_pop(traversal)
    /\ traversal' = IF traversal = <<>> THEN traversal ELSE Front(traversal)
    /\ pc' = "list_dir"
    /\ UNCHANGED <<argv, fs, stdout, calls, parts, output, panic, path_, ext, bytes>>

\* the rest of list_dir: its return value
ListDirMatch ==
    /\ pc = "list_dir"
    /\ res' = list_dir_match(fs, res, path_)
    /\ pc' = "ls_result"
    /\ UNCHANGED <<argv, fs, stdout, calls, traversal, parts, output, panic,
                   path_, ext, bytes>>

\* match list_dir(fs, arg_file_path) in main
MainLs ==
    /\ pc = "ls_result"
    /\ output' = ls_output(res)
    /\ pc' = "print"
    /\ UNCHANGED <<argv, fs, stdout, calls, traversal, parts, res, panic,
                   path_, ext, bytes>>

\* ---------------------------------------------------------------- read_file
\* read_file_branch with a path without a dot rendered as json
read_file_branch_default_json(path) ==
    LET sp == split_once(path)
    IN  IF ~sp.some THEN "json"
        ELSE CASE sp.ext = <<"schema">> -> "schema"
               [] sp.ext = <<"json">> -> "json"
               [] sp.ext = <<"mps">> -> "mps"
               [] OTHER -> "unsupported"

\* the arm `match file_ext` takes for a path; "unwrap" when split_once
\* finds no dot and unwrap panics
read_file_branch(path) ==
    LET sp == split_once(path)
    IN  IF ~sp.some THEN "unwrap"
        ELSE CASE sp.ext = <<"schema">> -> "schema"
               [] sp.ext = <<"json">> -> "json"
               [] sp.ext = <<"mps">> -> "mps"
               [] OTHER -> "unsupported"

\* the `_` arm with the extension put into the error
read_file_unsupported_with_ext(e) == Err("Invalid file type", e)

\* the error of the `_` arm of read_file
read_file_unsupported(e) == InvalidFileType

\* the message of .expect(msg) on Err(e)
ExpectErr(msg, e) == <<msg, ": ">> \o <<e.err>> \o e.arg

Abort(msg) == pc' = "abort" /\ panic' = msg

\* read_file up to the arm chosen by the extension
ReadFileEnter ==
    /\ pc = "dispatch"
    /\ arg_cmd = Read
    /\ LET b == read_file_branch(arg_file_path)
       IN  /\ ext' = split_once(arg_file_path).ext
           /\ CASE b = "unwrap" ->
                     /\ Abort(<<"called Option::unwrap() on a None value">>)
                     /\ UNCHANGED res
                [] b = "unsupported" ->
                     /\ res' = read_file_unsupported(ext')
                     /\ pc' = "read_result"
                     /\ UNCHANGED panic
                [] OTHER ->
                     /\ pc' = b
                     /\ UNCHANGED <<res, panic>>
    /\ UNCHANGED <<argv, fs, stdout, calls, traversal, parts, output, path_, bytes>>

\* db.read_file(path).expect("couldnt read file") of the arm at position at
ReadBytes(at, next) ==
    /\ pc = at
    /\ calls' = Append(calls, "read_file")
    /\ \/ \E b \in FileBytes : bytes' = b /\ pc' = next /\ UNCHANGED panic
       \/ Abort(<<"couldnt read file">>) /\ UNCHANGED bytes
    /\ UNCHANGED <<argv, fs, stdout, traversal, parts, res, output, path_, ext>>

\* the schema arm with the argument global_data() evaluated before the
\* receiver db.read_file(path)
SchemaReadFile_after_global ==
    /\ pc = "schema"
    /\ calls' = calls \o <<"global_data", "read_file">>
    /\ \/ \E b \in FileBytes : bytes' = b /\ pc' = "schema_decode" /\ UNCHANGED panic
       \/ Abort(<<"couldnt read file">>) /\ UNCHANGED bytes
    /\ UNCHANGED <<argv, fs, stdout, traversal, parts, res, output, path_, ext>>

SchemaReadFile == ReadBytes("schema", "schema_global")

\* db.global_data().expect("couldnt get global data")
SchemaGlobalData ==
    /\ pc = "schema_global"
    /\ calls' = Append(calls, "global_data")
    /\ \/ pc' = "schema_decode" /\ UNCHANGED panic
       \/ Abort(<<"couldnt get global data">>)
    /\ UNCHANGED <<argv, fs, stdout, traversal, parts, res, output, path_, ext, bytes>>

\* read_brdb_schema_with_data(..).expect("couldnt read schema"), format!
SchemaDecode ==
    /\ pc = "schema_decode"
    /\ calls' = Append(calls, "read_brdb_schema_with_data")
    /\ \/ res' = OkText(SchemaText(bytes)) /\ pc' = "read_result" /\ UNCHANGED panic
       \/ Abort(<<"couldnt read schema">>) /\ UNCHANGED res
    /\ UNCHANGED <<argv, fs, stdout, traversal, parts, output, path_, ext, bytes>>

JsonReadFile == ReadBytes("json", "json_utf8")

\* str::from_utf8(&file_bytes).expect(..), Ok(String::from(file))
JsonFromUtf8 ==
    /\ pc = "json_utf8"
    /\ IF Utf8Valid(bytes)
       THEN res' = OkText(bytes) /\ pc' = "read_result" /\ UNCHANGED panic
       ELSE Abort(<<"couldnt convert file bytes to str">>) /\ UNCHANGED res
    /\ UNCHANGED <<argv, fs, stdout, calls, traversal, parts, output, path_, ext, bytes>>

MpsReadFile == ReadBytes("mps", "mps_write")

\* MpsWrite with the result of the write checked: a failed or short write
\* aborts after bytes went out
MpsWrite_checked ==
    /\ pc = "mps_write"
    /\ stdout' = Append(stdout, RawWrite(bytes))
    /\ \/ res' = OkText(<<>>) /\ pc' = "read_result" /\ UNCHANGED panic
       \/ Abort(<<"couldnt write file">>) /\ UNCHANGED res
    /\ UNCHANGED <<argv, fs, calls, traversal, parts, output, path_, ext, bytes>>

\* std::io::stdout().write(&file_bytes), Ok(String::from(""))
MpsWrite ==
    /\ pc = "mps_write"
    /\ stdout' = Append(stdout, RawWrite(bytes))
    /\ res' = OkText(<<>>)
    /\ pc' = "read_result"
    /\ UNCHANGED <<argv, fs, calls, traversal, parts, output, panic, path_, ext, bytes>>

\* read_file(db, arg_file_path).expect("couldnt read file") in main
MainRead ==
    /\ pc = "read_result"
    /\ IF res.ok
       THEN output' = res.text /\ pc' = "print" /\ UNCHANGED panic
       ELSE Abort(ExpectErr("couldnt read file", res)) /\ UNCHANGED output
    /\ UNCHANGED <<argv, fs, stdout, calls, traversal, parts, res, path_, ext, bytes>>

\* ---------------------------------------------------------------- Spec
Next ==
    \/ MainArgs
    \/ OpenDb
    \/ GetFs
    \/ InvalidCmd
    \/ ListDirEnter
    \/ TraverseStep
    \/ TraverseReturn
    \/ ListDirMatch
    \/ MainLs
    \/ ReadFileEnter
    \/ SchemaReadFile
    \/ SchemaGlobalData
    \/ SchemaDecode
    \/ JsonReadFile
    \/ JsonFromUtf8
    \/ MpsReadFile
    \/ MpsWrite
    \/ MainRead
    \/ Println

Spec == Init /\ [][Next]_vars

TypeOK ==
    /\ pc \in {"main", "open", "get_fs", "dispatch", "traverse", "list_dir",
               "ls_result", "schema", "schema_global", "schema_decode", "json",
               "json_utf8", "mps", "mps_write", "read_result", "print",
               "done", "exit", "abort"}
    /\ argv \in Argvs
    /\ fs \in Trees

\* ---------------------------------------------------------------- reference walk
\* The walk the claims about traverse refer to: a name moves to that child,
\* `..` moves to the parent, `.` stays.  It is stated on addresses and
\* counts of segments, with no stack.
IsName(seg) == seg \notin {CurDir, ParentDir}

RefStep(cur, seg) ==
    IF seg = CurDir THEN cur
    ELSE IF seg = ParentDir THEN Front(cur)
    ELSE Append(cur, seg)

\* the address the first k segments lead to
RECURSIVE RefNode(_, _)
RefNode(segs, k) ==
    IF k = 0 THEN Root ELSE RefStep(RefNode(segs, k - 1), segs[k])

InTree(t, n) == n = Root \/ n \in DOMAIN t
IsDir(t, n) == InTree(t, n) /\ Kind(t, n) \in {"Root", "Folder"}
IsFile(t, n) == InTree(t, n) /\ Kind(t, n) = "File"

Ups(segs, k) == Cardinality({i \in 1..k : segs[i] = ParentDir})
Downs(segs, k) == Cardinality({i \in 1..k : IsName(segs[i])})

\* segment k is the name of a child of the node the walk is at, which is
\* not a File
Descends(t, segs, k) ==
    /\ IsName(segs[k])
    /\ IsDir(t, RefNode(segs, k - 1))
    /\ Append(RefNode(segs, k - 1), segs[k]) \in DOMAIN t

\* segment k can be followed: `.`, a `..` that does not leave the tree, or
\* the name of a child
StepOk(t, segs, k) ==
    \/ segs[k] = CurDir
    \/ segs[k] = ParentDir /\ Ups(segs, k) <= Downs(segs, k)
    \/ Descends(t, segs, k)

PrefixOk(t, segs, k) == \A j \in 1..k : StepOk(t, segs, j)

\* traverse has returned its result for the path path_
Traversed == pc = "list_dir" /\ path_ # <<>>
Segs == split(path_)

\* ---------------------------------------------------------------- C1
\* C1: for a path of `.`, `..` and child names that never ascends above
\* the root and never applies a name to a File, traverse returns Ok with
\* the node the reference walk reaches.
C1_TraverseFollowsWalk ==
    (Traversed /\ PrefixOk(fs, Segs, Len(Segs)))
        => res = OkNode(RefNode(Segs, Len(Segs)))

\* a valid path with a descent and an ascent has been resolved
C1_Witness ==
    /\ Traversed
    /\ PrefixOk(fs, Segs, Len(Segs))
    /\ \E i, j \in 1..Len(Segs) : i < j /\ IsName(Segs[i]) /\ Segs[j] = ParentDir
    /\ res.ok

\* ---------------------------------------------------------------- C2
\* the path is <folder-name>/<file-name>/<anything> with a Folder child of
\* the root, a File child of that folder and a non-empty remainder
IntoFilePath(t, segs) ==
    /\ Len(segs) >= 3
    /\ IsName(segs[1]) /\ IsName(segs[2])
    /\ <<segs[1]>> \in DOMAIN t /\ t[<<segs[1]>>] = "Folder"
    /\ <<segs[1], segs[2]>> \in DOMAIN t /\ t[<<segs[1], segs[2]>>] = "File"
    /\ ~(Len(segs) = 3 /\ segs[3] = <<>>)

\* C2 as stated: every such path fails with TraverseIntoFile, whatever
\* the remainder is.
C2_Original ==
    (Traversed /\ IntoFilePath(fs, Segs)) => res = TraverseIntoFile

\* the first segment of the remainder that is not `.` is a literal name
RemainderNamesFirst(segs) ==
    \E k \in 3..Len(segs) :
        /\ IsName(segs[k])
        /\ \A j \in 3..(k - 1) : segs[j] = CurDir

\* C2, amended: such a path fails with TraverseIntoFile whenever the first
\* segment of the remainder that is not `.` is a literal name (not `..`);
\* a remainder of `.` segments only returns Ok with the File node.
C2_IntoFile ==
    (Traversed /\ IntoFilePath(fs, Segs)) =>
        /\ RemainderNamesFirst(Segs) => res = TraverseIntoFile
        /\ (\A k \in 3..Len(Segs) : Segs[k] = CurDir)
              => res = OkNode(<<Segs[1], Segs[2]>>)

C2_Witness ==
    /\ Traversed /\ IntoFilePath(fs, Segs)
    /\ RemainderNamesFirst(Segs)
    /\ res = TraverseIntoFile

\* ---------------------------------------------------------------- C3
\* the walk ascends above the root: some `..` is applied at the root after
\* a prefix that resolved without error
AscendsAboveRoot(t, segs) ==
    \E k \in 1..Len(segs) :
        /\ PrefixOk(t, segs, k - 1)
        /\ segs[k] = ParentDir
        /\ Ups(segs, k) > Downs(segs, k)

\* C3: traverse returns NoParentOfRoot exactly when the walk ascends above
\* the root; ascending is never a silent no-op.
C3_NoParentOfRootIff ==
    Traversed => (res = NoParentOfRoot <=> AscendsAboveRoot(fs, Segs))

\* a path that ascends at the root and goes on has failed
C3_Witness ==
    /\ Traversed
    /\ res = NoParentOfRoot
    /\ Len(Segs) >= 2
    /\ Segs[1] = ParentDir

\* ---------------------------------------------------------------- C4
\* C4: when the segments before position i resolve to a Root or Folder and
\* segment i is a name that node has no child for, traverse fails with
\* NotFound carrying exactly that segment, whatever follows.
C4_NotFoundSegment ==
    Traversed =>
        \A i \in 1..Len(Segs) :
            ( /\ PrefixOk(fs, Segs, i - 1)
              /\ IsDir(fs, RefNode(Segs, i - 1))
              /\ IsName(Segs[i])
              /\ ~Descends(fs, Segs, i) )
            => res = NotFound(Segs[i])

\* an unknown name after a descent and before further segments
C4_Witness ==
    /\ Traversed
    /\ Len(Segs) >= 3
    /\ Descends(fs, Segs, 1)
    /\ res = NotFound(Segs[2])
    /\ Segs[2] # <<>>

\* ---------------------------------------------------------------- runs
HasCmd(c) == Len(argv) >= 4 /\ arg_cmd = c

SetupFailures == {<<"couldnt open file">>, <<"couldnt get fs">>}

\* the container is opened, the tree root obtained and the command entered
Dispatched ==
    /\ pc \notin {"main", "open", "get_fs", "dispatch", "exit"}
    /\ panic \notin SetupFailures

\* s without its leading and trailing slashes, by positions
StripSlashes(s) ==
    LET keep == {i \in 1..Len(s) : s[i] # Slash}
    IN  IF keep = {} THEN <<>>
        ELSE SubSeq(s, CHOOSE i \in keep : \A j \in keep : i <= j,
                       CHOOSE i \in keep : \A j \in keep : i >= j)

\* the substring after the last dot of a path that has one
Suffix(path) == SubSeq(path, LastIndex(path, Dot) + 1, Len(path))
HasDot(path) == \E i \in 1..Len(path) : path[i] = Dot

RenderBranches == {"schema", "json", "mps"}

\* the rendering branch the suffix of the path names
SuffixBranch(path) ==
    IF Suffix(path) \in {<<b>> : b \in RenderBranches}
    THEN Suffix(path)[1] ELSE "unsupported"

\* ---------------------------------------------------------------- C5
\* the branch read_file has entered
BranchEntered ==
    /\ HasCmd(Read)
    /\ \/ pc \in RenderBranches
       \/ pc = "read_result" /\ ~res.ok
BranchTaken == IF pc \in RenderBranches THEN pc ELSE "unsupported"

\* C5: for a path with a dot, read_file selects its branch from the
\* substring after the LAST dot of the path.
C5_BranchByLastDot ==
    (BranchEntered /\ HasDot(arg_file_path))
        => BranchTaken = SuffixBranch(arg_file_path)

\* ---------------------------------------------------------------- C6
\* the path argument of `ls` names a File of the tree
ResolvesToFile ==
    LET segs == split(StripSlashes(argv[4]))
    IN  /\ StripSlashes(argv[4]) # <<>>
        /\ PrefixOk(fs, segs, Len(segs))
        /\ IsFile(fs, RefNode(segs, Len(segs)))

LsPrinted == HasCmd(Ls) /\ pc \in {"print", "done"}

\* C6 as stated: the listing of a File is the path argument, character
\* for character, leading and trailing slashes included.
C6_Original ==
    (LsPrinted /\ ResolvesToFile) => output = argv[4]

\* C6, amended: the listing of a File is the path argument without its
\* leading and trailing slashes, which is the string handed to the
\* resolver; it is the argument itself only when that has no such slash.
C6_FileListsTrimmedPath ==
    (LsPrinted /\ ResolvesToFile) => output = StripSlashes(argv[4])

C6_Witness ==
    /\ LsPrinted /\ ResolvesToFile
    /\ pc = "done"
    /\ Head(argv[4]) = Slash /\ Last(argv[4]) = Slash
    /\ Len(split(StripSlashes(argv[4]))) >= 2

\* ---------------------------------------------------------------- C7
\* C7: a run that completes a command has written to standard output
\* exactly once.
C7_OneWrite == pc = "done" => Len(stdout) = 1

\* ---------------------------------------------------------------- C8
RootPaths == {<<>>, <<Slash>>, <<Dot>>}

\* C8: `ls` of "", "/" and "." gives the same output, the listing of the
\* direct children of the root.
C8_RootListings ==
    (LsPrinted /\ argv[4] \in RootPaths)
        => output = strings_to_lines(MapKeys(fs, Root))

C8_Witness ==
    /\ LsPrinted /\ pc = "done"
    /\ argv[4] = <<Dot>>
    /\ Len(MapKeys(fs, Root)) = 2
    /\ stdout # <<>>

\* ---------------------------------------------------------------- C9
\* read_file has returned for a path whose suffix names no rendering branch
UnsupportedRendered ==
    /\ HasCmd(Read) /\ Dispatched
    /\ HasDot(arg_file_path)
    /\ SuffixBranch(arg_file_path) = "unsupported"

NavErrors == {"NoParentOfRoot", "NotFound", "TraverseIntoFile"}

\* the message of a navigation error, as the program words it
NavMessage(r) ==
    CASE r.err = "NoParentOfRoot" -> <<"You tried to go above the root directory.">>
      [] r.err = "NotFound" ->
            <<"cannot access '">> \o r.arg \o <<"': No such file or directory.">>
      [] r.err = "TraverseIntoFile" -> <<"Tried to traverse into a file, not a folder.">>

\* C10: once the tree root is obtained, an `ls` run never aborts and never
\* stops before its output; a navigation error becomes the single line
\* `error: <message>` on standard output.
C10_LsErrorsAreOutput ==
    (HasCmd(Ls) /\ Dispatched) =>
        /\ pc # "abort"
        /\ pc # "done" => ENABLED Next
        /\ (pc \in {"ls_result", "print", "done"} /\ ~res.ok) =>
              /\ res.err \in NavErrors
              /\ pc \in {"print", "done"} => output = <<"error: ">> \o NavMessage(res)
              /\ pc = "done" =>
                    stdout = <<TextWrite(<<"error: ">> \o NavMessage(res) \o <<"\n">>)>>

C10_Witness ==
    /\ HasCmd(Ls) /\ pc = "done"
    /\ ~res.ok /\ res.err = "NotFound" /\ res.arg # <<>>

\* ---------------------------------------------------------------- C11
\* C11: a run that aborts on a fatal error has written nothing to standard
\* output.
C11_NoPartialOutput == pc = "abort" => stdout = <<>>

\* a read run that aborted late, after the storage was read
C11_Witness ==
    /\ pc = "abort" /\ HasCmd(Read)
    /\ panic = <<"couldnt convert file bytes to str">>
    /\ calls = <<"open", "get_fs", "read_file">>

\* ---------------------------------------------------------------- C12
NewLine == "\n"

\* the pieces of s between its newlines; the last piece is what follows
\* the last newline
RECURSIVE LinesOf(_)
LinesOf(s) ==
    LET i == FirstIndex(s, NewLine)
    IN  IF i = 0 THEN <<s>>
        ELSE <<SubSeq(s, 1, i - 1)>> \o LinesOf(SubSeq(s, i + 1, Len(s)))

LsSegs == split(StripSlashes(argv[4]))

\* the node the path argument of `ls` names, when it names one
LsNode ==
    IF StripSlashes(argv[4]) = <<>> THEN Root ELSE RefNode(LsSegs, Len(LsSegs))

ResolvesToDir ==
    /\ StripSlashes(argv[4]) # <<>> => PrefixOk(fs, LsSegs, Len(LsSegs))
    /\ IsDir(fs, LsNode)

ChildNames(t, n) == {k \in Names : Append(n, k) \in DOMAIN t}

\* C12: the listing of a Root or Folder is the names of its direct
\* children, each once, each on a line of its own that ends in a newline.
C12_ListingIsChildNames ==
    (LsPrinted /\ ResolvesToDir) =>
        LET lines == LinesOf(output)
        IN  /\ Last(lines) = <<>>
            /\ {lines[i] : i \in 1..(Len(lines) - 1)} = ChildNames(fs, LsNode)
            /\ Len(lines) - 1 = Cardinality(ChildNames(fs, LsNode))

\* a folder below the root, with a child, has been listed
C12_Witness ==
    /\ LsPrinted /\ ResolvesToDir /\ pc = "done"
    /\ LsNode # Root
    /\ ChildNames(fs, LsNode) # {}
    /\ ChildNames(fs, LsNode) # ChildNames(fs, Root)

\* ---------------------------------------------------------------- C13
\* C13: for a command other than `ls` and `read`, once the tree root is
\* obtained, the run prints the invalid-command line with the command as
\* given, resolves no path, reads nothing from the storage and ends
\* normally.
C13_InvalidCommand ==
    (Len(argv) >= 4 /\ argv[3] \notin {<<"ls">>, <<"read">>} /\ Dispatched) =>
        /\ pc \in {"print", "done"}
        /\ output = <<"invalid command: ">> \o argv[3]
                        \o <<". use one of: <ls|read|edit>">>
        /\ calls = <<"open", "get_fs">>
        /\ traversal = <<>> /\ parts = <<>> /\ path_ = <<>> /\ res = NoRes
        /\ pc = "print" => (stdout = <<>> /\ ENABLED Next)
        /\ pc = "done" => (stdout = <<TextWrite(output \o <<NewLine>>)>> /\ ExitCode = 0)

C13_Witness ==
    /\ Len(argv) >= 4 /\ argv[3] = <<"edit">>
    /\ pc = "done"
    /\ argv[4] # <<>>

\* ---------------------------------------------------------------- C14
\* C14: with fewer than 3 arguments after the program name the run prints
\* the usage line and exits with code 0 without opening the container.
C14_Usage ==
    Len(argv) < 4 =>
        /\ pc \in {"main", "exit"}
        /\ calls = <<>> /\ fs = EmptyFs /\ panic = <<>>
        /\ pc = "main" => (stdout = <<>> /\ ENABLED Next)
        /\ pc = "exit" =>
              /\ stdout = <<TextWrite(<<"usage: ">> \o argv[1]
                              \o <<" <world file path> <ls|read|edit> <path>">>
                              \o <<NewLine>>)>>
              /\ ExitCode = 0

\* a run with two arguments after the program name has exited
C14_Witness == pc = "exit" /\ Len(argv) = 3

\* ---------------------------------------------------------------- C15
\* C15: rendering a path without a dot aborts at once: no call to the
\* storage reader, no output, no rendering branch entered.
C15_NoDotFailsFast ==
    (HasCmd(Read) /\ Dispatched /\ ~HasDot(argv[4])) =>
        /\ pc = "abort"
        /\ panic = <<"called Option::unwrap() on a None value">>
        /\ calls = <<"open", "get_fs">>
        /\ stdout = <<>> /\ output = <<>>
        /\ res = NoRes /\ bytes = <<>>

C15_Witness ==
    /\ HasCmd(Read) /\ Dispatched /\ ~HasDot(argv[4])
    /\ pc = "abort"
    /\ \E i \in 1..Len(argv[4]) : argv[4][i] = "json"

\* ---------------------------------------------------------------- C16
\* C16: for `ls` the empty segments of leading, trailing and doubled
\* slashes are filtered out before the split, so traverse never processes
\* an empty segment.
C16_NoEmptySegment ==
    (HasCmd(Ls) /\ pc = "traverse") => \A i \in 1..Len(parts) : parts[i] # <<>>

\* ---------------------------------------------------------------- C17
SchemaCalls ==
    <<"open", "get_fs", "read_file", "global_data", "read_brdb_schema_with_data">>

\* the run renders a path of the schema branch
SchemaRun ==
    /\ HasCmd(Read) /\ Dispatched
    /\ HasDot(argv[4])
    /\ SubSeq(argv[4], FirstIndex(argv[4], Dot) + 1, Len(argv[4])) = <<"schema">>

\* C17: the schema branch reads the storage, then fetches the global data,
\* then decodes; a failed read aborts before the global data is fetched
\* and a failed fetch aborts before the decode.
C17_SchemaOrder ==
    SchemaRun =>
        /\ \E k \in 2..5 : calls = SubSeq(SchemaCalls, 1, k)
        /\ pc = "abort" =>
              \/ panic = <<"couldnt read file">> /\ calls = SubSeq(SchemaCalls, 1, 3)
              \/ panic = <<"couldnt get global data">> /\ calls = SubSeq(SchemaCalls, 1, 4)
              \/ panic = <<"couldnt read schema">> /\ calls = SchemaCalls
        /\ pc \in {"read_result", "print", "done"} => calls = SchemaCalls

\* the file was there and the global data was not
C17_Witness ==
    /\ SchemaRun /\ pc = "abort"
    /\ panic = <<"couldnt get global data">>
    /\ bytes # <<>>

\* ---------------------------------------------------------------- C18
\* the stack is empty, or the root with a chain of direct children above
\* it of which only the top can be a File
StackOk(t, stack) ==
    \/ stack = <<>>
    \/ /\ stack[1] = Root
       /\ \A i \in 2..Len(stack) :
             /\ stack[i] \in DOMAIN t
             /\ \E k \in Names : stack[i] = Append(stack[i - 1], k)
       /\ \A i \in 1..(Len(stack) - 1) : Kind(t, stack[i]) # "File"

\* C18: at the start of traverse and after every segment it processes the
\* stack is empty or a chain from the root in which only the top can be a
\* File, and an empty stack stays empty.
C18_StackInvariant ==
    [][ /\ pc' = "traverse" => StackOk(fs', traversal')
        /\ pc = "traverse" =>
              /\ StackOk(fs', traversal')
              /\ traversal = <<>> => traversal' = <<>> ]_vars

\* a name is about to be processed on the emptied stack
C18_Witness ==
    /\ pc = "traverse"
    /\ traversal = <<>>
    /\ parts # <<>> /\ Head(parts) \in Names
    /\ <<Head(parts)>> \in DOMAIN fs

\* ---------------------------------------------------------------- C19
\* C19: the result of list_dir does not change when leading and trailing
\* slashes are added to or removed from the path argument.
C19_SlashesIgnored ==
    (HasCmd(Ls) /\ pc = "ls_result") =>
        /\ res = list_dir(fs, argv[4])
        /\ res = list_dir(fs, <<Slash>> \o argv[4])
        /\ res = list_dir(fs, argv[4] \o <<Slash>>)
        /\ res = list_dir(fs, <<Slash, Slash>> \o argv[4] \o <<Slash, Slash>>)
        /\ res = list_dir(fs, StripSlashes(argv[4]))

\* a File named with slashes around its path has been listed
C19_Witness ==
    /\ HasCmd(Ls) /\ pc = "ls_result"
    /\ ResolvesToFile
    /\ Head(argv[4]) = Slash /\ Last(argv[4]) = Slash
    /\ res.ok

====
